---- MODULE Spec2Model ----
(***************************************************************************)
(* TabletTool (src/event/tablet_tool/tool.rs): a reference-counted wrapper *)
(* around a native libinput_tablet_tool, its accessors and the translation *)
(* of the native tool-type code into TabletToolType.                       *)
(***************************************************************************)
EXTENDS Integers, FiniteSets, Sequences, TLC

\* ------------------------------------------------------------------ bounds
\* Number of wrapper instances (struct TabletTool values) a behaviour creates.
MaxWrappers == 3

\* --------------------------------------------------- native type codes
\* enum libinput_tablet_tool_type, as matched in tool_type().
LIBINPUT_TABLET_TOOL_TYPE_PEN == 1
LIBINPUT_TABLET_TOOL_TYPE_ERASER == 2
LIBINPUT_TABLET_TOOL_TYPE_BRUSH == 3
LIBINPUT_TABLET_TOOL_TYPE_PENCIL == 4
LIBINPUT_TABLET_TOOL_TYPE_AIRBRUSH == 5
LIBINPUT_TABLET_TOOL_TYPE_MOUSE == 6
LIBINPUT_TABLET_TOOL_TYPE_LENS == 7
LIBINPUT_TABLET_TOOL_TYPE_TOTEM == 8

\* A tag no version of the enum assigns (a reserved / future code).
FutureCode == 9999

\* Type codes the native layer is made to report: 0 and 9 border the known
\* range, FutureCode is far outside it.
TypeCodes == (0 .. 9) \cup {FutureCode}

\* Button codes passed to has_button (see linux/input.h): 0, BTN_STYLUS and
\* a large code no device declares.
ButtonCodes == {0, 331, 2147483647}

SerialValues == {0, 7}
ToolIdValues == {0, 2050}

\* The capability queries wrapped by ffi_func!(..., bool).
CapNames == {"distance", "pressure", "rotation", "slider", "tilt", "wheel",
             "unique", "size"}

\* The two native tools of the model, and the wrapper instances.
Tools == {"toolA", "toolB"}
Wrappers == 1 .. MaxWrappers

\* ------------------------------------------------------------ Option<T>
Some(v) == <<"Some", v>>
None == <<"None">>

VARIABLES
    libinput_1_14,  \* cfg(feature = "libinput_1_14"): fixed per build
    tool,           \* native layer: the properties of each libinput_tablet_tool
    refcount,       \* native layer: reference count of each tool
    freed,          \* native layer: how many times each tool was freed
    pending,        \* raw handles handed over by the native layer, not yet wrapped
    state,          \* per wrapper: "unborn", "live" or "dropped"
    ffi,            \* per wrapper: the raw pointer field of struct TabletTool
    origin,         \* per wrapper: the from_raw wrapper it descends from
    last,           \* the latest accessor call: wrapper, method, argument, result
    noted           \* an earlier accessor call kept for comparison

vars == <<libinput_1_14, tool, refcount, freed, pending, state, ffi, origin,
          last, noted>>

NoTool == "null"
NoCall == [w |-> 0, op |-> "none", arg |-> 0, result |-> 0, dangling |-> FALSE]

\* ------------------------------------------------------- native layer
\* libinput_tablet_tool_ref: one more reference to tool t.
libinput_tablet_tool_ref(n, t) ==
    [n EXCEPT !.refcount[t] = @ + 1]

\* libinput_tablet_tool_unref: one reference fewer; at zero the tool is freed.
\* An unref of a tool that holds no reference is a second free.
libinput_tablet_tool_unref(n, t) ==
    IF n.refcount[t] > 1
    THEN [n EXCEPT !.refcount[t] = @ - 1]
    ELSE [n EXCEPT !.refcount[t] = 0, !.freed[t] = @ + 1]

libinput_tablet_tool_get_serial(obj) == obj.serial
libinput_tablet_tool_get_tool_id(obj) == obj.tool_id
libinput_tablet_tool_get_type(obj) == obj.type
libinput_tablet_tool_has_button(obj, button) == obj.buttons[button]
libinput_tablet_tool_has_capability(obj, cap) == obj.caps[cap]

\* What a raw pointer to t reads: the tool, or after its free whatever
\* object occupies the memory.
Pointee(t) ==
    IF freed[t] = 0 THEN {tool[t]} ELSE {tool[u] : u \in Tools}

\* --------------------------------------------------- struct TabletTool
\* The ref and unref functions the ffi_ref_struct! invocation binds.
TabletTool_ref_fn_swapped(n, t) == libinput_tablet_tool_unref(n, t)
TabletTool_ref_fn(n, t) == libinput_tablet_tool_ref(n, t)

TabletTool_unref_fn_swapped(n, t) == libinput_tablet_tool_ref(n, t)
TabletTool_unref_fn_destroy(n, t) ==
    [n EXCEPT !.refcount[t] = 0, !.freed[t] = @ + 1]
TabletTool_unref_fn(n, t) == libinput_tablet_tool_unref(n, t)

Native == [refcount |-> refcount, freed |-> freed]

Live(t) == {w \in Wrappers : state[w] = "live" /\ ffi[w] = t}
Created(t) == {w \in Wrappers : state[w] # "unborn" /\ ffi[w] = t}
Dropped(t) == {w \in Wrappers : state[w] = "dropped" /\ ffi[w] = t}

\* The next wrapper instance to come into being.
Fresh(w) == state[w] = "unborn" /\ \A v \in Wrappers : v < w => state[v] # "unborn"

\* The reference count from_raw leaves behind: the wrapper takes over the
\* reference that came with the raw handle.
from_raw_acquire_ref(n, t) == libinput_tablet_tool_ref(n, t)
from_raw_acquire(n, t) == n

\* The native layer hands a raw handle, and one reference with it, to the
\* wrapper layer (e.g. out of a tablet-tool event).
NativeHandOver(t) ==
    /\ freed[t] = 0
    /\ \A u \in Tools : pending[u] = 0
    /\ \E w \in Wrappers : state[w] = "unborn"
    /\ refcount' = [refcount EXCEPT ![t] = @ + 1]
    /\ pending' = [pending EXCEPT ![t] = @ + 1]
    /\ UNCHANGED <<libinput_1_14, tool, freed, state, ffi, origin, last, noted>>

\* The native layer hands over a tool it has not handed over before.
NativeHandOverFirst(t) ==
    /\ Created(t) = {}
    /\ NativeHandOver(t)

\* FromRaw::from_raw
FromRaw(w, t) ==
    /\ Fresh(w)
    /\ pending[t] > 0
    /\ LET n == from_raw_acquire(Native, t) IN
        /\ refcount' = n.refcount
        /\ freed' = n.freed
    /\ pending' = [pending EXCEPT ![t] = @ - 1]
    /\ state' = [state EXCEPT ![w] = "live"]
    /\ ffi' = [ffi EXCEPT ![w] = t]
    /\ origin' = [origin EXCEPT ![w] = w]
    /\ UNCHANGED <<libinput_1_14, tool, last, noted>>

\* The pointer a clone holds.
clone_ffi_other(self) == CHOOSE t \in Tools : t # ffi[self]
clone_ffi(self) == ffi[self]

\* Clone::clone
Clone(self, w) ==
    /\ state[self] = "live"
    /\ Fresh(w)
    /\ LET n == TabletTool_ref_fn(Native, ffi[self]) IN
        /\ refcount' = n.refcount
        /\ freed' = n.freed
    /\ state' = [state EXCEPT ![w] = "live"]
    /\ ffi' = [ffi EXCEPT ![w] = clone_ffi(self)]
    /\ origin' = [origin EXCEPT ![w] = origin[self]]
    /\ UNCHANGED <<libinput_1_14, tool, pending, last, noted>>

\* Drop::drop
Drop(self) ==
    /\ state[self] = "live"
    /\ LET n == TabletTool_unref_fn(Native, ffi[self]) IN
        /\ refcount' = n.refcount
        /\ freed' = n.freed
    /\ state' = [state EXCEPT ![self] = "dropped"]
    /\ UNCHANGED <<libinput_1_14, tool, pending, ffi, origin, last, noted>>

\* ------------------------------------------------------------ accessors
\* ffi_func!(fn name, ffi_fn, u64): the native value as it is.
ffi_func_u64(x) == x
\* ffi_func!(fn name, ffi_fn, bool): nonzero is true.
ffi_func_bool(x) == x # 0

serial_swapped(obj) == ffi_func_u64(libinput_tablet_tool_get_tool_id(obj))
serial(obj) == ffi_func_u64(libinput_tablet_tool_get_serial(obj))

tool_id(obj) == ffi_func_u64(libinput_tablet_tool_get_tool_id(obj))

\* The match of tool_type on a native code x, its arms in source order, under
\* a build with (gate) or without the libinput_1_14 feature.
tool_type_match_no_fallback(x, gate) ==
    IF x = LIBINPUT_TABLET_TOOL_TYPE_PEN THEN Some("Pen")
    ELSE IF x = LIBINPUT_TABLET_TOOL_TYPE_ERASER THEN Some("Eraser")
    ELSE IF x = LIBINPUT_TABLET_TOOL_TYPE_BRUSH THEN Some("Brush")
    ELSE IF x = LIBINPUT_TABLET_TOOL_TYPE_PENCIL THEN Some("Pencil")
    ELSE IF x = LIBINPUT_TABLET_TOOL_TYPE_AIRBRUSH THEN Some("Airbrush")
    ELSE IF x = LIBINPUT_TABLET_TOOL_TYPE_MOUSE THEN Some("Mouse")
    ELSE IF gate /\ x = LIBINPUT_TABLET_TOOL_TYPE_TOTEM THEN Some("Totem")
    ELSE Some("Lens")
tool_type_match_gate_ignored(x, gate) ==
    IF x = LIBINPUT_TABLET_TOOL_TYPE_PEN THEN Some("Pen")
    ELSE IF x = LIBINPUT_TABLET_TOOL_TYPE_ERASER THEN Some("Eraser")
    ELSE IF x = LIBINPUT_TABLET_TOOL_TYPE_BRUSH THEN Some("Brush")
    ELSE IF x = LIBINPUT_TABLET_TOOL_TYPE_PENCIL THEN Some("Pencil")
    ELSE IF x = LIBINPUT_TABLET_TOOL_TYPE_AIRBRUSH THEN Some("Airbrush")
    ELSE IF x = LIBINPUT_TABLET_TOOL_TYPE_MOUSE THEN Some("Mouse")
    ELSE IF x = LIBINPUT_TABLET_TOOL_TYPE_LENS THEN Some("Lens")
    ELSE IF x = LIBINPUT_TABLET_TOOL_TYPE_TOTEM THEN Some("Totem")
    ELSE None
tool_type_match(x, gate) ==
    IF x = LIBINPUT_TABLET_TOOL_TYPE_PEN THEN Some("Pen")
    ELSE IF x = LIBINPUT_TABLET_TOOL_TYPE_ERASER THEN Some("Eraser")
    ELSE IF x = LIBINPUT_TABLET_TOOL_TYPE_BRUSH THEN Some("Brush")
    ELSE IF x = LIBINPUT_TABLET_TOOL_TYPE_PENCIL THEN Some("Pencil")
    ELSE IF x = LIBINPUT_TABLET_TOOL_TYPE_AIRBRUSH THEN Some("Airbrush")
    ELSE IF x = LIBINPUT_TABLET_TOOL_TYPE_MOUSE THEN Some("Mouse")
    ELSE IF x = LIBINPUT_TABLET_TOOL_TYPE_LENS THEN Some("Lens")
    ELSE IF gate /\ x = LIBINPUT_TABLET_TOOL_TYPE_TOTEM THEN Some("Totem")
    ELSE None

tool_type(obj) == tool_type_match(libinput_tablet_tool_get_type(obj), libinput_1_14)

has_button_is_one(obj, button) == libinput_tablet_tool_has_button(obj, button) = 1
has_button(obj, button) == libinput_tablet_tool_has_button(obj, button) # 0

has_distance(obj) == ffi_func_bool(libinput_tablet_tool_has_capability(obj, "distance"))
has_pressure(obj) == ffi_func_bool(libinput_tablet_tool_has_capability(obj, "pressure"))
has_rotation(obj) == ffi_func_bool(libinput_tablet_tool_has_capability(obj, "rotation"))
has_slider(obj) == ffi_func_bool(libinput_tablet_tool_has_capability(obj, "slider"))
has_tilt(obj) == ffi_func_bool(libinput_tablet_tool_has_capability(obj, "tilt"))
has_wheel(obj) == ffi_func_bool(libinput_tablet_tool_has_capability(obj, "wheel"))
is_unique(obj) == ffi_func_bool(libinput_tablet_tool_has_capability(obj, "unique"))
tablet_tool_has_size(obj) == ffi_func_bool(libinput_tablet_tool_has_capability(obj, "size"))

\* The methods of impl TabletTool and the argument each takes (0: none).
Methods == {"serial", "tool_id", "tool_type", "has_button", "has_distance",
            "has_pressure", "has_rotation", "has_slider", "has_tilt",
            "has_wheel", "is_unique", "tablet_tool_has_size"}
BoolMethods == Methods \ {"serial", "tool_id", "tool_type"}
Args(op) == IF op = "has_button" THEN ButtonCodes ELSE {0}

\* tablet_tool_has_size exists only under cfg(feature = "libinput_1_14").
Compiled(op) == op = "tablet_tool_has_size" => libinput_1_14

\* The value method op returns on the object behind the wrapper's pointer.
Invoke(op, arg, obj) ==
    CASE op = "serial" -> serial(obj)
      [] op = "tool_id" -> tool_id(obj)
      [] op = "tool_type" -> tool_type(obj)
      [] op = "has_button" -> has_button(obj, arg)
      [] op = "has_distance" -> has_distance(obj)
      [] op = "has_pressure" -> has_pressure(obj)
      [] op = "has_rotation" -> has_rotation(obj)
      [] op = "has_slider" -> has_slider(obj)
      [] op = "has_tilt" -> has_tilt(obj)
      [] op = "has_wheel" -> has_wheel(obj)
      [] op = "is_unique" -> is_unique(obj)
      [] op = "tablet_tool_has_size" -> tablet_tool_has_size(obj)

\* What an accessor call does to the native layer and the wrappers: nothing.
AccessorEffect_takes_ref(self) ==
    /\ refcount' = [refcount EXCEPT ![ffi[self]] = (@ % MaxWrappers) + 1]
    /\ UNCHANGED <<libinput_1_14, tool, freed, pending, state, ffi, origin>>
AccessorEffect(self) ==
    UNCHANGED <<libinput_1_14, tool, refcount, freed, pending, state, ffi, origin>>

\* A call self.op(arg) on a live wrapper. The caller either keeps the
\* result (keep) or discards it; once a result is noted, the results kept
\* are those of the same query.
Call(self, op, arg, keep) ==
    /\ state[self] = "live"
    /\ Compiled(op)
    /\ IF keep
       THEN /\ noted = NoCall \/ (op = noted.op /\ arg = noted.arg)
            /\ \E obj \in Pointee(ffi[self]) :
                 last' = [w |-> self, op |-> op, arg |-> arg,
                          result |-> Invoke(op, arg, obj),
                          dangling |-> freed[ffi[self]] > 0]
       ELSE UNCHANGED last
    /\ AccessorEffect(self)
    /\ UNCHANGED noted

\* The caller sets the result of the latest call aside for a later comparison.
Note ==
    /\ noted = NoCall
    /\ last # NoCall
    /\ noted' = last
    /\ UNCHANGED <<libinput_1_14, tool, refcount, freed, pending, state, ffi,
                   origin, last>>

\* ------------------------------------------------------- specifications
CapIndex(c) ==
    CASE c = "distance" -> 0 [] c = "pressure" -> 1 [] c = "rotation" -> 2
      [] c = "slider" -> 3 [] c = "tilt" -> 4 [] c = "wheel" -> 5
      [] c = "unique" -> 6 [] c = "size" -> 7

\* Capability sets a tool may report: none, all, and three in which every
\* two capabilities differ somewhere.
CapProfiles ==
    {[c \in CapNames |-> 0], [c \in CapNames |-> 1]}
    \cup {[c \in CapNames |-> (CapIndex(c) \div (2 ^ k)) % 2] : k \in 0 .. 2}

ButtonIndex(b) == CASE b = 0 -> 0 [] b = 331 -> 1 [] OTHER -> 2

\* Button tables: every code gets every native answer in one of them.
ButtonTables ==
    {[b \in ButtonCodes |-> (ButtonIndex(b) + k) % 3] : k \in 0 .. 2}

\* A plain pen, and a tool that differs from it in every property.
PenObject ==
    [serial |-> 7, tool_id |-> 0, type |-> LIBINPUT_TABLET_TOOL_TYPE_PEN,
     caps |-> [c \in CapNames |-> CapIndex(c) % 2],
     buttons |-> [b \in ButtonCodes |-> ButtonIndex(b) % 3]]
Unlike(obj) ==
    [serial |-> IF obj.serial = 0 THEN 7 ELSE 0, tool_id |-> obj.tool_id + 1,
     type |-> IF obj.type = LIBINPUT_TABLET_TOOL_TYPE_ERASER
              THEN LIBINPUT_TABLET_TOOL_TYPE_PEN
              ELSE LIBINPUT_TABLET_TOOL_TYPE_ERASER,
     caps |-> [c \in CapNames |-> 1 - obj.caps[c]],
     buttons |-> [b \in ButtonCodes |-> IF obj.buttons[b] = 0 THEN 1 ELSE 0]]

InitWrappers ==
    /\ refcount = [t \in Tools |-> 0]
    /\ freed = [t \in Tools |-> 0]
    /\ pending = [t \in Tools |-> 0]
    /\ state = [w \in Wrappers |-> "unborn"]
    /\ ffi = [w \in Wrappers |-> NoTool]
    /\ origin = [w \in Wrappers |-> 0]
    /\ last = NoCall
    /\ noted = NoCall

\* Lifetime of the wrappers: two unlike tools, either build.
Init ==
    /\ libinput_1_14 \in BOOLEAN
    /\ tool = [t \in Tools |-> IF t = "toolA" THEN PenObject ELSE Unlike(PenObject)]
    /\ InitWrappers

Next ==
    \/ \E t \in Tools : NativeHandOver(t)
    \/ \E w \in Wrappers, t \in Tools : FromRaw(w, t)
    \/ \E self, w \in Wrappers : Clone(self, w)
    \/ \E self \in Wrappers : Drop(self)
    \/ \E self \in Wrappers, op \in Methods :
         \E arg \in Args(op) : Call(self, op, arg, TRUE)

Spec == Init /\ [][Next]_vars

\* Comparing the results of two calls: each tool is handed over once, and
\* the caller may set a result aside.
CompareNext ==
    \/ \E t \in Tools : NativeHandOverFirst(t)
    \/ \E w \in Wrappers, t \in Tools : FromRaw(w, t)
    \/ \E self, w \in Wrappers : Clone(self, w)
    \/ \E self \in Wrappers : Drop(self)
    \/ \E self \in Wrappers, op \in Methods, keep \in BOOLEAN :
         \E arg \in Args(op) : Call(self, op, arg, keep)
    \/ Note

CompareSpec == Init /\ [][CompareNext]_vars

\* The queries: toolA ranges over objects that vary one property of a pen at
\* a time over all its values, toolB is unlike it.
QueryObjects ==
    {[PenObject EXCEPT !.type = c] : c \in TypeCodes}
    \cup {[PenObject EXCEPT !.serial = s, !.tool_id = i] :
             s \in SerialValues, i \in ToolIdValues}
    \cup {[PenObject EXCEPT !.caps = p] : p \in CapProfiles}
    \cup {[PenObject EXCEPT !.buttons = b] : b \in ButtonTables}

QueryInit ==
    /\ libinput_1_14 \in BOOLEAN
    /\ \E a \in QueryObjects :
        tool = [t \in Tools |-> IF t = "toolA" THEN a ELSE Unlike(a)]
    /\ InitWrappers

QueryNext ==
    \/ \E t \in Tools : NativeHandOverFirst(t)
    \/ \E w \in Wrappers, t \in Tools : FromRaw(w, t)
    \/ \E self \in Wrappers : Drop(self)
    \/ \E self \in Wrappers, op \in Methods, keep \in BOOLEAN :
         \E arg \in Args(op) : Call(self, op, arg, keep)

QuerySpec == QueryInit /\ [][QueryNext]_vars

\* ---------------------------------------------------------------- claims
\* The object a wrapper's pointer refers to, and the code it reports.
ObjectOf(w) == tool[ffi[w]]

\* TabletToolType's variants and the native code each stands for.
KnownPairs(gate) ==
    {<<LIBINPUT_TABLET_TOOL_TYPE_PEN, "Pen">>,
     <<LIBINPUT_TABLET_TOOL_TYPE_ERASER, "Eraser">>,
     <<LIBINPUT_TABLET_TOOL_TYPE_BRUSH, "Brush">>,
     <<LIBINPUT_TABLET_TOOL_TYPE_PENCIL, "Pencil">>,
     <<LIBINPUT_TABLET_TOOL_TYPE_AIRBRUSH, "Airbrush">>,
     <<LIBINPUT_TABLET_TOOL_TYPE_MOUSE, "Mouse">>,
     <<LIBINPUT_TABLET_TOOL_TYPE_LENS, "Lens">>}
    \cup (IF gate THEN {<<LIBINPUT_TABLET_TOOL_TYPE_TOTEM, "Totem">>} ELSE {})
KnownCodes(gate) == {p[1] : p \in KnownPairs(gate)}

\* C1: tool_type is total over the native codes: a known code (TOTEM only
\* with the feature on) gives Some of its one variant, distinct known codes
\* give distinct variants, and any other code (such as 9999) gives None.
C1_ToolTypeTotal ==
    /\ last.op = "tool_type" =>
        LET code == ObjectOf(last.w).type IN
        /\ \A p \in KnownPairs(libinput_1_14) :
              code = p[1] => last.result = Some(p[2])
        /\ code \notin KnownCodes(libinput_1_14) => last.result = None
    /\ \A c, d \in KnownCodes(libinput_1_14) :
          c # d => tool_type_match(c, libinput_1_14) # tool_type_match(d, libinput_1_14)

\* A tool reporting the future code 9999 was asked its type and gave None.
C1_Witness ==
    /\ last.op = "tool_type"
    /\ ObjectOf(last.w).type = FutureCode
    /\ last.result = None

Born(w) == state[w] = "unborn" /\ state'[w] = "live"
BornFromRaw(w) == Born(w) /\ origin'[w] = w
BornByClone(w) == Born(w) /\ origin'[w] # w

C4_WrappersWithinRefcount ==
    /\ \A t \in Tools :
        /\ Cardinality(Live(t)) <= refcount[t]
        /\ Live(t) # {} => freed[t] = 0
        /\ freed[t] <= 1
    /\ ~last.dangling
    /\ ~noted.dangling

\* Two live wrappers share one tool whose count is two, one of them has been
\* queried, and the other tool has already been freed.
C4_Witness ==
    \E t, u \in Tools :
        /\ Cardinality(Live(t)) = 2
        /\ refcount[t] = 2
        /\ last.op # "none"
        /\ last.w \in Live(t)
        /\ freed[u] = 1

\* C5: an accessor call on a live wrapper changes neither the native
\* reference counts, nor the frees, nor the tools' properties, nor the
\* wrappers.
C5_AccessorsPure ==
    [][last' # last
       => UNCHANGED <<libinput_1_14, tool, refcount, freed, pending, state,
                      ffi, origin>>]_vars

\* An accessor was called on one of two live wrappers of a tool.
C5_Witness ==
    /\ last.op = "has_tilt"
    /\ state[last.w] = "live"
    /\ Cardinality(Live(ffi[last.w])) = 2
    /\ refcount[ffi[last.w]] = 2

\* C6: serial() and tool_id() return the value the native layer reports:
\* 0 for a tool that reports none, the nonzero value otherwise; and a later
\* call on the same wrapper returns what an earlier one did.
C6_SerialToolId ==
    /\ last.op = "serial" =>
        /\ last.result = ObjectOf(last.w).serial
        /\ last.result = 0 <=> ObjectOf(last.w).serial = 0
    /\ last.op = "tool_id" =>
        /\ last.result = ObjectOf(last.w).tool_id
        /\ last.result = 0 <=> ObjectOf(last.w).tool_id = 0
    /\ (/\ noted.op \in {"serial", "tool_id"}
        /\ last.op = noted.op
        /\ last.w = noted.w) => last.result = noted.result

\* serial() returned 0 on a tool that reports no serial number but does
\* report a tool id.
C6_Witness ==
    /\ last.op = "serial"
    /\ last.result = 0
    /\ ObjectOf(last.w).tool_id # 0

\* C7: two calls of the same accessor with the same argument, made on
\* wrappers that descend from the same original handle, return the same
\* value, whatever was cloned, dropped or called in between.
C7_ClonesAgree ==
    (/\ noted.op # "none"
     /\ last.op = noted.op
     /\ last.arg = noted.arg
     /\ origin[last.w] = origin[noted.w]) => last.result = noted.result

\* The original answered a query, then its clone answered the same query
\* after a second clone had been made and dropped.
C7_Witness ==
    /\ noted.op = "serial"
    /\ last.op = "serial"
    /\ noted.w = 1
    /\ last.w = 2
    /\ origin[2] = 1
    /\ origin[3] = 1
    /\ state[3] = "dropped"

\* C8: a boolean capability accessor called twice on the same wrapper, with
\* the same argument, returns the same value both times, whatever happened
\* in between.
C8_BoolIdempotent ==
    (/\ noted.op \in BoolMethods
     /\ last.op = noted.op
     /\ last.arg = noted.arg
     /\ last.w = noted.w) => last.result = noted.result

\* has_pressure() was called twice on wrapper 1, with a clone made and
\* another wrapper dropped in between.
C8_Witness ==
    /\ noted.op = "has_pressure"
    /\ last.op = "has_pressure"
    /\ noted.w = 1
    /\ last.w = 1
    /\ \E v \in Wrappers : state[v] = "dropped"
    /\ \E v \in Wrappers : v # 1 /\ state[v] = "live" /\ origin[v] = 1

\* C9: the TOTEM code gives Some(Totem) in a build with libinput_1_14 and
\* None in a build without it; every other code gives what it gives in the
\* other build.
C9_TotemGated ==
    last.op = "tool_type" =>
        LET code == ObjectOf(last.w).type IN
        /\ code = LIBINPUT_TABLET_TOOL_TYPE_TOTEM =>
              last.result = IF libinput_1_14 THEN Some("Totem") ELSE None
        /\ code # LIBINPUT_TABLET_TOOL_TYPE_TOTEM =>
              last.result = tool_type_match(code, ~libinput_1_14)

\* Without the feature, a tool reporting TOTEM was asked its type and gave
\* None.
C9_Witness ==
    /\ ~libinput_1_14
    /\ last.op = "tool_type"
    /\ ObjectOf(last.w).type = LIBINPUT_TABLET_TOOL_TYPE_TOTEM
    /\ last.result = None

\* C10: has_button(code) is true exactly when the native query for that
\* tool and that code answers nonzero, for every code.
C10_HasButtonPassThrough ==
    last.op = "has_button" =>
        /\ last.result \in BOOLEAN
        /\ last.result <=> (ObjectOf(last.w).buttons[last.arg] # 0)

\* has_button was true for the largest code, the native answer being 2.
C10_Witness ==
    /\ last.op = "has_button"
    /\ last.arg = 2147483647
    /\ ObjectOf(last.w).buttons[last.arg] = 2
    /\ last.result = TRUE

====
